---- MODULE Spec2Model ----
(***************************************************************************)
(* kt::fixed_vector<T, N> (src/fixed_vector.hpp): a vector-like container  *)
(* over an inline array of N raw slots, and its random-access iterator.    *)
(*                                                                         *)
(* Two containers of the same type (ids 1 and 2) are driven by a client    *)
(* that calls the public operations, with arguments that respect the       *)
(* preconditions and with arguments that do not.  One iterator over        *)
(* container 1 is driven through its operators.  A slot holds Empty (raw   *)
(* bytes, no object), Moved (a moved-from object of a non-trivial T) or a  *)
(* value.  size_type arithmetic is modulo 2^W.  Assertions are enabled: a  *)
(* failed assert aborts the program.  The client makes no call after one   *)
(* that broke a precondition.                                              *)
(***************************************************************************)
EXTENDS Integers, Sequences, FiniteSets, TLC

VARIABLES vec, alive, is_trivial, it, last

vars == <<vec, alive, is_trivial, it, last>>

\* Bounds of the model
N == 3
MaxVal == 1
W == 3
MaxDelta == 2

Modulus == 2 ^ W
SizeT == 0 .. (Modulus - 1)
Values == 0 .. MaxVal
Ids == {1, 2}
Slots == 0 .. (N - 1)

\* T{} : the value-initialised element
Default == 0
\* a slot of raw storage holding no object
Empty == -1
\* a moved-from object of a non-trivial T
Moved == -2
\* the null typed pointer of an iterator
NullPtr == -1

SlotVals == Values \cup {Empty, Moved}

\* static_cast<size_type>(d)
cast(d) == d % Modulus
\* static_cast<difference_type>(s)
cast_diff(s) == IF s >= Modulus \div 2 THEN s - Modulus ELSE s

EmptyStorage == [i \in Slots |-> Empty]
NewVec == [m_storage |-> EmptyStorage, m_size |-> 0]

\* the elements a container holds, in index order
Elems(v) == [i \in 1 .. (IF v.m_size <= N THEN v.m_size ELSE N) |-> v.m_storage[i - 1]]

(***************************************************************************)
(* Execution state of one call: the containers, whether an assert failed   *)
(* (the call is aborted there), whether a slot was used outside its        *)
(* lifetime, the constructions and destructions made, the returned index.  *)
(***************************************************************************)
Start == [vec |-> vec, failed |-> FALSE, ub |-> FALSE, log |-> <<>>, ret |-> 0]

Fail(M) == [M EXCEPT !.failed = TRUE]
Ub(M) == [M EXCEPT !.ub = TRUE]
Event(k, c, i) == [k |-> k, c |-> c, i |-> i]

size(M, c) == M.vec[c].m_size
capacity == N
empty(M, c) == M.vec[c].m_size = 0
has_space(M, c) == M.vec[c].m_size < N

\* the object in slot index of c, through a typed pointer to that slot
Get(M, c, index) == IF index < N THEN M.vec[c].m_storage[index] ELSE Empty
IsLive(M, c, index) == Get(M, c, index) # Empty
\* what std::move leaves behind in its source
MovedFrom(v) == IF is_trivial THEN v ELSE Moved

\* assignment to the object in slot index (a live slot is required)
Assign(M, c, index, v) ==
    IF index < N THEN [M EXCEPT !.vec[c].m_storage[index] = v] ELSE Ub(M)

\* at(index): the assertion, then the access to the slot
at(M, c, index) ==
    IF M.failed THEN M
    ELSE IF ~(index < size(M, c)) THEN Fail(M)
    ELSE IF ~IsLive(M, c, index) THEN Ub(M)
    ELSE M

\* emplace_back with m_size incremented once too often
emplace_back_off(M, c, v) ==
    IF M.failed THEN M
    ELSE IF ~has_space(M, c) THEN Fail(M)
    ELSE LET i == size(M, c)
             M1 == IF ~is_trivial /\ IsLive(M, c, i) THEN Ub(M) ELSE M
         IN  [M1 EXCEPT !.vec[c].m_storage[i] = v,
                        !.vec[c].m_size = i + 2,
                        !.log = Append(@, Event("construct", c, i))]

\* emplace_back that constructs T() and drops its arguments
emplace_back_noargs(M, c, v) ==
    IF M.failed THEN M
    ELSE IF ~has_space(M, c) THEN Fail(M)
    ELSE LET i == size(M, c)
             M1 == IF ~is_trivial /\ IsLive(M, c, i) THEN Ub(M) ELSE M
         IN  [M1 EXCEPT !.vec[c].m_storage[i] = Default,
                        !.vec[c].m_size = i + 1,
                        !.log = Append(@, Event("construct", c, i))]

emplace_back(M, c, v) ==
    IF M.failed THEN M
    ELSE IF ~has_space(M, c) THEN Fail(M)
    ELSE LET i == size(M, c)
             M1 == IF ~is_trivial /\ IsLive(M, c, i) THEN Ub(M) ELSE M
         IN  [M1 EXCEPT !.vec[c].m_storage[i] = v,
                        !.vec[c].m_size = i + 1,
                        !.log = Append(@, Event("construct", c, i))]

push_back(M, c, v) == emplace_back(M, c, v)

\* pop_back that never runs the destructor
pop_back_keep(M, c) ==
    IF M.failed THEN M
    ELSE IF empty(M, c) THEN Fail(M)
    ELSE [M EXCEPT !.vec[c].m_size = @ - 1]

pop_back(M, c) ==
    IF M.failed THEN M
    ELSE IF empty(M, c) THEN Fail(M)
    ELSE IF is_trivial THEN [M EXCEPT !.vec[c].m_size = @ - 1]
    ELSE LET i == cast(size(M, c) - 1)
             M1 == at(M, c, i)
         IN  [M1 EXCEPT !.vec[c].m_storage[i] = Empty,
                        !.vec[c].m_size = i,
                        !.log = Append(@, Event("destroy", c, i))]

RECURSIVE clear_loop(_, _)
clear_loop(M, c) ==
    IF M.failed \/ empty(M, c) THEN M ELSE clear_loop(pop_back(M, c), c)

\* clear that resets m_size for every T, running no destructor
clear_nodestroy(M, c) ==
    IF M.failed THEN M
    ELSE [M EXCEPT !.vec[c].m_size = 0]

clear(M, c) ==
    IF M.failed THEN M
    ELSE IF is_trivial THEN [M EXCEPT !.vec[c].m_size = 0]
    ELSE clear_loop(M, c)

\* the loop of emplace: swap(temp, at(idx)) for idx in [pos, m_size)
RECURSIVE emplace_shift(_, _, _, _)
emplace_shift(M, c, idx, temp) ==
    IF M.failed \/ ~(idx < size(M, c)) THEN [M |-> M, temp |-> temp]
    ELSE LET M1 == at(M, c, idx)
         IN  IF M1.failed THEN [M |-> M1, temp |-> temp]
             ELSE emplace_shift(Assign(M1, c, idx, temp), c, cast(idx + 1), Get(M1, c, idx))

\* emplace that appends a fresh T{} where the element in transit belongs
emplace_droplast(M, c, pos, v) ==
    IF M.failed THEN M
    ELSE IF ~has_space(M, c) THEN Fail(M)
    ELSE IF pos = size(M, c)
         THEN LET M1 == emplace_back(M, c, v)
              IN  [M1 EXCEPT !.ret = cast(size(M1, c) - 1)]
         ELSE LET S == emplace_shift(M, c, pos, Default)
                  M2 == emplace_back(S.M, c, Default)
                  M3 == at(M2, c, pos)
                  M4 == IF M3.failed THEN M3 ELSE Assign(M3, c, pos, v)
              IN  [M4 EXCEPT !.ret = pos]

\* emplace without its own assert, relying on the one in emplace_back
emplace_lateassert(M, c, pos, v) ==
    IF M.failed THEN M
    ELSE IF pos = size(M, c)
         THEN LET M1 == emplace_back(M, c, v)
              IN  [M1 EXCEPT !.ret = cast(size(M1, c) - 1)]
         ELSE LET S == emplace_shift(M, c, pos, Default)
                  M2 == emplace_back(S.M, c, S.temp)
                  M3 == at(M2, c, pos)
                  M4 == IF M3.failed THEN M3 ELSE Assign(M3, c, pos, v)
              IN  [M4 EXCEPT !.ret = pos]

\* emplace that returns the last index from both branches
emplace_retlast(M, c, pos, v) ==
    IF M.failed THEN M
    ELSE IF ~has_space(M, c) THEN Fail(M)
    ELSE IF pos = size(M, c)
         THEN LET M1 == emplace_back(M, c, v)
              IN  [M1 EXCEPT !.ret = cast(size(M1, c) - 1)]
         ELSE LET S == emplace_shift(M, c, pos, Default)
                  M2 == emplace_back(S.M, c, S.temp)
                  M3 == at(M2, c, pos)
                  M4 == IF M3.failed THEN M3 ELSE Assign(M3, c, pos, v)
              IN  [M4 EXCEPT !.ret = cast(size(M4, c) - 1)]

emplace(M, c, pos, v) ==
    IF M.failed THEN M
    ELSE IF ~has_space(M, c) THEN Fail(M)
    ELSE IF pos = size(M, c)
         THEN LET M1 == emplace_back(M, c, v)
              IN  [M1 EXCEPT !.ret = cast(size(M1, c) - 1)]
         ELSE LET S == emplace_shift(M, c, pos, Default)
                  M2 == emplace_back(S.M, c, S.temp)
                  M3 == at(M2, c, pos)
                  M4 == IF M3.failed THEN M3 ELSE Assign(M3, c, pos, v)
              IN  [M4 EXCEPT !.ret = pos]

\* the loop of erase(pos): at(idx) = std::move(at(idx + 1)) while idx < m_size - 1
RECURSIVE erase_shift(_, _, _)
erase_shift(M, c, idx) ==
    IF M.failed \/ ~(idx < cast(size(M, c) - 1)) THEN M
    ELSE LET M1 == at(M, c, cast(idx + 1))
             M2 == at(M1, c, idx)
             x == Get(M2, c, cast(idx + 1))
         IN  IF M2.failed THEN M2
             ELSE erase_shift(Assign(Assign(M2, c, idx, x), c, cast(idx + 1), MovedFrom(x)),
                              c, cast(idx + 1))

\* erase(pos) without the shift loop
erase_last(M, c, pos) ==
    IF M.failed THEN M
    ELSE LET M1 == pop_back(M, c)
         IN  [M1 EXCEPT !.ret = pos]

\* erase(pos) that runs the destructor of the erased element before the shift
erase_destroyfirst(M, c, pos) ==
    IF M.failed THEN M
    ELSE LET M0 == IF is_trivial \/ ~(pos < N) THEN M
                   ELSE [M EXCEPT !.vec[c].m_storage[pos] = Empty,
                                  !.log = Append(@, Event("destroy", c, pos))]
             M1 == pop_back(erase_shift(M0, c, pos), c)
         IN  [M1 EXCEPT !.ret = pos]

erase(M, c, pos) ==
    IF M.failed THEN M
    ELSE LET M1 == pop_back(erase_shift(M, c, pos), c)
         IN  [M1 EXCEPT !.ret = pos]

\* first loop of erase(first, last): at(first++) = std::move(at(last++)) while last < m_size
RECURSIVE erase_move(_, _, _, _)
erase_move(M, c, first, last_) ==
    IF M.failed \/ ~(last_ < size(M, c)) THEN [M |-> M, first |-> first]
    ELSE LET M1 == at(M, c, last_)
             M2 == at(M1, c, first)
             x == Get(M2, c, last_)
         IN  IF M2.failed THEN [M |-> M2, first |-> first]
             ELSE erase_move(Assign(Assign(M2, c, first, x), c, last_, MovedFrom(x)),
                             c, cast(first + 1), cast(last_ + 1))

\* second loop of erase(first, last): pop_back while m_size > first
RECURSIVE erase_pop(_, _, _)
erase_pop(M, c, first) ==
    IF M.failed \/ ~(size(M, c) > first) THEN M
    ELSE erase_pop(pop_back(M, c), c, first)

\* erase(first, last) without the loop that moves the tail down
erase_range_pop(M, c, first, last_) ==
    IF M.failed THEN M
    ELSE IF cast(last_ - first) = 0 THEN [M EXCEPT !.ret = last_]
    ELSE LET M1 == erase_pop(M, c, cast(size(M, c) - cast(last_ - first)))
         IN  [M1 EXCEPT !.ret = first]

erase_range(M, c, first, last_) ==
    IF M.failed THEN M
    ELSE IF cast(last_ - first) = 0 THEN [M EXCEPT !.ret = last_]
    ELSE LET S == erase_move(M, c, first, last_)
             M1 == erase_pop(S.M, c, S.first)
         IN  [M1 EXCEPT !.ret = first]

RECURSIVE resize_shrink(_, _, _)
resize_shrink(M, c, count) ==
    IF M.failed \/ ~(size(M, c) > count) THEN M
    ELSE resize_shrink(pop_back(M, c), c, count)

RECURSIVE resize_grow(_, _, _, _)
resize_grow(M, c, count, t) ==
    IF M.failed \/ ~(count > size(M, c)) THEN M
    ELSE resize_grow(push_back(M, c, t), c, count, t)

\* resize that grows with T{} instead of the fill value
resize_default_fill(M, c, count, t) ==
    resize_grow(resize_shrink(M, c, count), c, count, Default)

resize(M, c, count, t) == resize_grow(resize_shrink(M, c, count), c, count, t)

\* the loop of insert(pos, count, t): pos = emplace(pos, t), count times
RECURSIVE insert_count_loop(_, _, _, _, _)
insert_count_loop(M, c, pos, count, t) ==
    IF M.failed \/ count = 0 THEN M
    ELSE LET M1 == emplace(M, c, pos, t)
         IN  insert_count_loop(M1, c, M1.ret, count - 1, t)

insert_count(M, c, pos, count, t) ==
    IF M.failed THEN M
    ELSE IF count = 0 THEN [M EXCEPT !.ret = pos]
    ELSE LET M1 == insert_count_loop(M, c, pos, count, t)
         IN  [M1 EXCEPT !.ret = pos]

\* the loop of insert(pos, first, last): pos = emplace(pos, *first) over the input
RECURSIVE insert_range_loop(_, _, _, _)
insert_range_loop(M, c, pos, xs) ==
    IF M.failed \/ xs = <<>> THEN M
    ELSE LET M1 == emplace(M, c, pos, Head(xs))
         IN  insert_range_loop(M1, c, M1.ret, Tail(xs))

\* insert(pos, first, last) that checks the total against the capacity first
insert_range_checked(M, c, pos, xs) ==
    IF M.failed THEN M
    ELSE IF ~(size(M, c) + Len(xs) <= capacity) THEN Fail(M)
    ELSE IF Len(xs) = 0 THEN [M EXCEPT !.ret = pos]
    ELSE LET M1 == insert_range_loop(M, c, pos, xs)
         IN  [M1 EXCEPT !.ret = pos]

insert_range(M, c, pos, xs) ==
    IF M.failed THEN M
    ELSE IF Len(xs) = 0 THEN [M EXCEPT !.ret = pos]
    ELSE LET M1 == insert_range_loop(M, c, pos, xs)
         IN  [M1 EXCEPT !.ret = pos]

insert_ilist(M, c, pos, xs) == insert_range(M, c, pos, xs)

\* std::memcpy of the first n slots of src over those of dst
memcpy(M, dst, src, n) ==
    [M EXCEPT !.vec[dst].m_storage =
        [i \in Slots |-> IF i < n THEN M.vec[src].m_storage[i] ELSE @[i]]]

\* for (T& t : rhs) push_back(std::move(t)), over [i, end) with end read once
RECURSIVE clone_move_loop(_, _, _, _, _)
clone_move_loop(M, dst, src, i, end) ==
    IF M.failed \/ i = end THEN M
    ELSE LET x == Get(M, src, i)
             M1 == IF x = Empty THEN Ub(M) ELSE M
             M2 == push_back(M1, dst, x)
         IN  IF M2.failed THEN M2
             ELSE clone_move_loop(Assign(M2, src, i, MovedFrom(x)), dst, src, cast(i + 1), end)

\* clone(fixed_vector&& rhs)
clone_move(M, dst, src) ==
    IF M.failed THEN M
    ELSE IF is_trivial
         THEN [memcpy(M, dst, src, size(M, src)) EXCEPT !.vec[dst].m_size = size(M, src)]
         ELSE clone_move_loop(M, dst, src, 0, size(M, src))

\* for (T const& t : rhs) push_back(t), over [i, end) with end read once
RECURSIVE clone_copy_loop(_, _, _, _, _)
clone_copy_loop(M, dst, src, i, end) ==
    IF M.failed \/ i = end THEN M
    ELSE LET x == Get(M, src, i)
             M1 == IF x = Empty THEN Ub(M) ELSE M
         IN  clone_copy_loop(push_back(M1, dst, x), dst, src, cast(i + 1), end)

\* clone(fixed_vector const& rhs)
clone_copy(M, dst, src) ==
    IF M.failed THEN M
    ELSE IF is_trivial
         THEN [memcpy(M, dst, src, size(M, src)) EXCEPT !.vec[dst].m_size = size(M, src)]
         ELSE clone_copy_loop(M, dst, src, 0, size(M, src))

\* fixed_vector(fixed_vector&& rhs), constructing dst
move_ctor(M, dst, src) == clear(clone_move(M, dst, src), src)

\* fixed_vector(fixed_vector const& rhs), constructing dst
copy_ctor(M, dst, src) == clone_copy(M, dst, src)

\* move assignment that leaves rhs as it is
move_assign_noclear(M, dst, src) ==
    IF src # dst THEN clone_move(clear(M, dst), dst, src) ELSE M

\* operator=(fixed_vector&& rhs)
move_assign(M, dst, src) ==
    IF src # dst THEN clear(clone_move(clear(M, dst), dst, src), src) ELSE M

\* copy assignment that clears rhs as the move assignment does
copy_assign_clears(M, dst, src) ==
    IF src # dst THEN clear(clone_copy(clear(M, dst), dst, src), src) ELSE M

\* operator=(fixed_vector const& rhs)
copy_assign(M, dst, src) ==
    IF src # dst THEN clone_copy(clear(M, dst), dst, src) ELSE M

\* the loop of operator==: lhs[i] != rhs[i] for i in [0, lhs.size())
RECURSIVE eq_loop(_, _, _, _)
eq_loop(M, lhs, rhs, i) ==
    IF M.failed THEN [M |-> M, res |-> FALSE]
    ELSE IF ~(i < size(M, lhs)) THEN [M |-> M, res |-> TRUE]
    ELSE LET M1 == at(at(M, lhs, i), rhs, i)
         IN  IF M1.failed THEN [M |-> M1, res |-> FALSE]
             ELSE IF Get(M1, lhs, i) # Get(M1, rhs, i) THEN [M |-> M1, res |-> FALSE]
             ELSE eq_loop(M1, lhs, rhs, cast(i + 1))

\* operator== that stops after comparing the sizes
operator_eq_sizeonly(M, lhs, rhs) ==
    IF size(M, lhs) # size(M, rhs) THEN [M |-> M, res |-> FALSE]
    ELSE [M |-> M, res |-> TRUE]

\* operator==(lhs, rhs): the call's execution state and the result
operator_eq(M, lhs, rhs) ==
    IF size(M, lhs) # size(M, rhs) THEN [M |-> M, res |-> FALSE]
    ELSE eq_loop(M, lhs, rhs, 0)

\* operator!=(lhs, rhs)
operator_ne(M, lhs, rhs) ==
    LET R == operator_eq(M, lhs, rhs)
    IN  [R EXCEPT !.res = ~@]

RECURSIVE push_all(_, _, _)
push_all(M, c, xs) ==
    IF M.failed \/ xs = <<>> THEN M
    ELSE push_all(push_back(M, c, Head(xs)), c, Tail(xs))

\* fixed_vector(size_type count, T const& t)
ctor_count(M, c, count, t) ==
    IF ~(count <= capacity) THEN Fail(M)
    ELSE push_all(M, c, [i \in 1 .. count |-> t])

\* fixed_vector(std::initializer_list<T> init)
ctor_ilist(M, c, init) ==
    IF ~(Len(init) <= capacity) THEN Fail(M)
    ELSE push_all(M, c, init)

\* fixed_vector(InputIt first, InputIt last)
ctor_range(M, c, xs) == push_all(M, c, xs)

\* ~fixed_vector()
dtor(M, c) == clear(M, c)

(***************************************************************************)
(* iter_t: the index into the storage and the cached typed pointer, given  *)
(* as the index of the slot it points to.                                  *)
(***************************************************************************)
\* iter_t(storage, index)
iter_t(index) == [m_index |-> index, m_ptr |-> NullPtr]

release(I) == [I EXCEPT !.m_ptr = NullPtr]
increment(I, delta) == release([I EXCEPT !.m_index = cast(@ + delta)])
decrement(I, delta) == release([I EXCEPT !.m_index = cast(@ - delta)])
\* the iterator after acquire(); its m_ptr is the pointer acquire() returns
acquire(I) == IF I.m_ptr # NullPtr THEN I ELSE [I EXCEPT !.m_ptr = I.m_index]

\* operator++() and operator--()
pre_inc(I) == increment(I, 1)
pre_dec(I) == decrement(I, 1)
\* operator++(int) and operator--(int): the iterator left behind
post_inc(I) == [I EXCEPT !.m_index = cast(@ + 1)]
post_dec(I) == [I EXCEPT !.m_index = cast(@ - 1)]
\* operator+=(difference_type) and operator-=(difference_type)
plus_eq(I, d) == increment(I, cast(d))
minus_eq(I, d) == decrement(I, cast(d))

\* operator+(difference_type): a new iterator
plus(I, d) == [I EXCEPT !.m_index = cast(@ + cast(d)), !.m_ptr = NullPtr]
\* operator- computed as operator+
minus_adds(I, d) == [I EXCEPT !.m_index = cast(@ + cast(d)), !.m_ptr = NullPtr]
\* operator-(difference_type): a new iterator
minus(I, d) == [I EXCEPT !.m_index = cast(@ - cast(d)), !.m_ptr = NullPtr]
\* the values of difference_type
DiffT == (0 - Modulus \div 2) .. (Modulus \div 2 - 1)
\* operator-(iter_t const&): the results it can give; a signed subtraction
\* that overflows gives any
difference(I, J) ==
    LET r == cast_diff(I.m_index) - cast_diff(J.m_index)
    IN  IF r \in DiffT THEN {r} ELSE DiffT
\* the comparison operators, on two iterators over the same storage
iter_eq(I, J) == I.m_index = J.m_index
iter_ne(I, J) == ~iter_eq(I, J)
iter_lt(I, J) == I.m_index < J.m_index
iter_gt(I, J) == I.m_index > J.m_index
iter_le(I, J) == I.m_index <= J.m_index
iter_ge(I, J) == I.m_index >= J.m_index

begin == iter_t(0)
end(c) == iter_t(vec[c].m_size)

(***************************************************************************)
(* The client                                                              *)
(***************************************************************************)
MaxIns == 2

RECURSIVE SeqsOf(_)
SeqsOf(k) ==
    IF k = 0 THEN {<<>>}
    ELSE LET R == SeqsOf(k - 1)
         IN  R \cup {Append(xs, v) : xs \in {ys \in R : Len(ys) = k - 1}, v \in Values}

NoArgs == [p |-> 0, q |-> 0, v |-> 0, xs |-> <<>>, src |-> 0]
\* aged: m_ptr was acquired before a call that constructed or destroyed an element
NoIter == [has |-> FALSE, m_index |-> 0, m_ptr |-> NullPtr, mut |-> FALSE, aged |-> FALSE]

\* the record of a call: its arguments, whether its precondition held, the
\* containers before it, how it ended; whether it undoes the call before it
\* and then the containers before that one; whether it read through a typed
\* pointer older than a construction or destruction
Record(op, c, pre, a, M, val, undoes, base) ==
    [op |-> op, c |-> c, pre |-> pre, p |-> a.p, q |-> a.q, v |-> a.v, xs |-> a.xs,
     src |-> a.src, old |-> vec, ret |-> IF M.failed THEN 0 ELSE M.ret,
     failed |-> M.failed, ub |-> M.ub, log |-> M.log, val |-> val,
     undoes |-> undoes, base |-> base, stale |-> FALSE]

\* pop_back() right after push_back(v), or erase at the position that the
\* insert(pos, v) / emplace(pos, args) right before it returned
Undoes(op, c, a) ==
    /\ last.pre /\ ~last.failed /\ last.c = c
    /\ \/ op = "pop_back" /\ last.op = "push_back"
       \/ op = "erase" /\ last.op = "emplace" /\ a.p = last.ret

\* the record of the latest call
Called(op, c, pre, a, M, val) ==
    Record(op, c, pre, a, M, val, Undoes(op, c, a),
           IF Undoes(op, c, a) THEN last.old ELSE vec)

Running == ~last.failed /\ last.pre /\ ~last.ub

\* a call on container c that ran to M
Finish(op, c, pre, a, M, val) ==
    /\ vec' = M.vec
    /\ last' = Called(op, c, pre, a, M, val)
    /\ LET lifetimes == \E k \in 1 .. Len(M.log) : M.log[k].c = 1
       IN  it' = IF it.has
                 THEN [it EXCEPT !.mut = @ \/ M.vec[1] # vec[1] \/ lifetimes,
                                 !.aged = @ \/ (it.m_ptr # NullPtr /\ lifetimes)]
                 ELSE it
    /\ UNCHANGED <<alive, is_trivial>>

Init ==
    /\ vec = [c \in Ids |-> NewVec]
    /\ alive = [c \in Ids |-> c = 1]
    /\ is_trivial \in BOOLEAN
    /\ it = NoIter
    /\ last = Record("fixed_vector", 1, TRUE, NoArgs, Start, 0, FALSE, vec)

PushBack(c, v) ==
    /\ Running /\ alive[c]
    /\ Finish("push_back", c, vec[c].m_size < N, [NoArgs EXCEPT !.v = v],
              push_back(Start, c, v), 0)

PopBack(c) ==
    /\ Running /\ alive[c]
    /\ Finish("pop_back", c, vec[c].m_size > 0, NoArgs, pop_back(Start, c), 0)

Clear(c) ==
    /\ Running /\ alive[c]
    /\ Finish("clear", c, TRUE, NoArgs, clear(Start, c), 0)

\* insert(pos, t) and emplace(pos, args): pos has index p
Emplace(c, p, v) ==
    /\ Running /\ alive[c]
    /\ Finish("emplace", c, vec[c].m_size < N /\ p <= vec[c].m_size,
              [NoArgs EXCEPT !.p = p, !.v = v], emplace(Start, c, p, v), 0)

Erase(c, p) ==
    /\ Running /\ alive[c]
    /\ Finish("erase", c, p < vec[c].m_size, [NoArgs EXCEPT !.p = p], erase(Start, c, p), 0)

EraseRange(c, f, l) ==
    /\ Running /\ alive[c]
    /\ Finish("erase_range", c, f <= l /\ l <= vec[c].m_size,
              [NoArgs EXCEPT !.p = f, !.q = l], erase_range(Start, c, f, l), 0)

InsertCount(c, p, n, v) ==
    /\ Running /\ alive[c]
    /\ Finish("insert_count", c, p <= vec[c].m_size /\ vec[c].m_size + n <= N,
              [NoArgs EXCEPT !.p = p, !.q = n, !.v = v, !.xs = [i \in 1 .. n |-> v]],
              insert_count(Start, c, p, n, v), 0)

InsertRange(c, p, xs) ==
    /\ Running /\ alive[c]
    /\ Finish("insert_range", c, p <= vec[c].m_size /\ vec[c].m_size + Len(xs) <= N,
              [NoArgs EXCEPT !.p = p, !.xs = xs], insert_range(Start, c, p, xs), 0)

InsertIlist(c, p, xs) ==
    /\ Running /\ alive[c]
    /\ Finish("insert_ilist", c, p <= vec[c].m_size /\ vec[c].m_size + Len(xs) <= N,
              [NoArgs EXCEPT !.p = p, !.xs = xs], insert_ilist(Start, c, p, xs), 0)

Resize(c, n, v) ==
    /\ Running /\ alive[c]
    /\ Finish("resize", c, n <= N, [NoArgs EXCEPT !.q = n, !.v = v], resize(Start, c, n, v), 0)

\* at(index) and operator[](index)
At(c, i) ==
    /\ Running /\ alive[c]
    /\ LET M == at(Start, c, i)
       IN  Finish("at", c, i < vec[c].m_size, [NoArgs EXCEPT !.p = i], M,
                  IF M.failed THEN Empty ELSE Get(M, c, i))

Front(c) ==
    /\ Running /\ alive[c]
    /\ LET M == at(Start, c, 0)
       IN  Finish("front", c, vec[c].m_size > 0, NoArgs, M,
                  IF M.failed THEN Empty ELSE Get(M, c, 0))

Back(c) ==
    /\ Running /\ alive[c]
    /\ LET i == cast(vec[c].m_size - 1)
           M == at(Start, c, i)
       IN  Finish("back", c, vec[c].m_size > 0, [NoArgs EXCEPT !.p = i], M,
                  IF M.failed THEN Empty ELSE Get(M, c, i))

CopyAssign(c, src) ==
    /\ Running /\ alive[c] /\ alive[src]
    /\ Finish("copy_assign", c, TRUE, [NoArgs EXCEPT !.src = src], copy_assign(Start, c, src), 0)

MoveAssign(c, src) ==
    /\ Running /\ alive[c] /\ alive[src]
    /\ Finish("move_assign", c, TRUE, [NoArgs EXCEPT !.src = src], move_assign(Start, c, src), 0)

\* a bool result as it is recorded
Flag(b) == IF b THEN 1 ELSE 0

\* c == src
Equals(c, src) ==
    /\ Running /\ alive[c] /\ alive[src]
    /\ LET R == operator_eq(Start, c, src)
       IN  Finish("eq", c, TRUE, [NoArgs EXCEPT !.src = src], R.M, Flag(R.res))

\* c != src
NotEquals(c, src) ==
    /\ Running /\ alive[c] /\ alive[src]
    /\ LET R == operator_ne(Start, c, src)
       IN  Finish("ne", c, TRUE, [NoArgs EXCEPT !.src = src], R.M, Flag(R.res))

\* a constructor of container c that ran to M
Construct(op, c, pre, a, M) ==
    /\ Running /\ ~alive[c]
    /\ vec' = M.vec
    /\ alive' = [alive EXCEPT ![c] = TRUE]
    /\ last' = Called(op, c, pre, a, M, 0)
    /\ it' = IF it.has /\ M.vec[1] # vec[1] THEN [it EXCEPT !.mut = TRUE] ELSE it
    /\ UNCHANGED is_trivial

CtorDefault(c) == Construct("fixed_vector", c, TRUE, NoArgs, Start)

CtorCount(c, n, v) ==
    Construct("ctor_count", c, n <= N, [NoArgs EXCEPT !.q = n, !.v = v], ctor_count(Start, c, n, v))

CtorIlist(c, xs) ==
    Construct("ctor_ilist", c, Len(xs) <= N, [NoArgs EXCEPT !.xs = xs], ctor_ilist(Start, c, xs))

CtorRange(c, xs) ==
    Construct("ctor_range", c, Len(xs) <= N, [NoArgs EXCEPT !.xs = xs], ctor_range(Start, c, xs))

CopyCtor(c, src) ==
    /\ alive[src]
    /\ Construct("copy_ctor", c, TRUE, [NoArgs EXCEPT !.src = src], copy_ctor(Start, c, src))

MoveCtor(c, src) ==
    /\ alive[src]
    /\ Construct("move_ctor", c, TRUE, [NoArgs EXCEPT !.src = src], move_ctor(Start, c, src))

\* ~fixed_vector(): the elements are destroyed and the storage goes away
Dtor(c) ==
    /\ Running /\ alive[c]
    /\ LET M == dtor(Start, c)
       IN  /\ vec' = [M.vec EXCEPT ![c] = NewVec]
           /\ last' = Called("dtor", c, TRUE, NoArgs, M, 0)
    /\ alive' = [alive EXCEPT ![c] = FALSE]
    /\ it' = IF c = 1 THEN NoIter ELSE it
    /\ UNCHANGED is_trivial

\* begin() and end() of container 1
ItBegin ==
    /\ Running /\ alive[1]
    /\ it' = [has |-> TRUE, m_index |-> begin.m_index, m_ptr |-> begin.m_ptr, mut |-> FALSE,
              aged |-> FALSE]
    /\ last' = Called("begin", 1, TRUE, NoArgs, Start, 0)
    /\ UNCHANGED <<vec, alive, is_trivial>>

ItEnd ==
    /\ Running /\ alive[1]
    /\ it' = [has |-> TRUE, m_index |-> end(1).m_index, m_ptr |-> end(1).m_ptr, mut |-> FALSE,
              aged |-> FALSE]
    /\ last' = Called("end", 1, TRUE, NoArgs, Start, 0)
    /\ UNCHANGED <<vec, alive, is_trivial>>

\* operator*() and operator->(): the object behind the pointer acquire() returns;
\* a pointer outside the storage reads anything
ItDeref ==
    /\ Running /\ alive[1] /\ it.has
    /\ LET I == acquire(it)
       IN  /\ it' = I
           /\ \E x \in (IF I.m_ptr < N THEN {vec[1].m_storage[I.m_ptr]} ELSE SlotVals) :
                 last' = [Called("deref", 1, it.m_index < vec[1].m_size,
                                 [NoArgs EXCEPT !.p = it.m_index],
                                 [Start EXCEPT !.ub = (x = Empty \/ ~(I.m_ptr < N))], x)
                          EXCEPT !.stale = it.m_ptr # NullPtr /\ it.aged]
    /\ UNCHANGED <<vec, alive, is_trivial>>

\* an operator that moves the iterator to I
ItMove(op, d, I) ==
    /\ Running /\ alive[1] /\ it.has
    /\ it' = [I EXCEPT !.aged = @ /\ I.m_ptr # NullPtr]
    /\ last' = Called(op, 1, TRUE, [NoArgs EXCEPT !.p = it.m_index, !.q = d], Start, 0)
    /\ UNCHANGED <<vec, alive, is_trivial>>

ItPreInc == ItMove("pre_inc", 1, pre_inc(it))
ItPreDec == ItMove("pre_dec", 1, pre_dec(it))
ItPostInc == ItMove("post_inc", 1, post_inc(it))
ItPostDec == ItMove("post_dec", 1, post_dec(it))
ItPlusEq(d) == ItMove("plus_eq", d, plus_eq(it, d))
ItMinusEq(d) == ItMove("minus_eq", d, minus_eq(it, d))

\* it = it + d and it = it - d
ItPlus(d) == ItMove("plus", d, plus(it, d))
ItMinus(d) == ItMove("minus", d, minus(it, d))

\* it - other and the six comparisons of it with other, for other = begin() + j
ItCompare(j) ==
    /\ Running /\ alive[1] /\ it.has
    /\ LET other == plus(begin, j)
       IN  \E r \in difference(it, other) :
              last' = Called("compare", 1, TRUE,
                             [NoArgs EXCEPT !.p = it.m_index, !.q = other.m_index,
                                            !.xs = <<Flag(iter_eq(it, other)), Flag(iter_ne(it, other)),
                                                     Flag(iter_lt(it, other)), Flag(iter_le(it, other)),
                                                     Flag(iter_gt(it, other)), Flag(iter_ge(it, other))>>],
                             Start, r)
    /\ UNCHANGED <<vec, alive, is_trivial, it>>

Deltas == (0 - MaxDelta) .. MaxDelta

\* One container under every public operation, with arguments inside and
\* outside the preconditions
Next ==
    \/ \E v \in Values : PushBack(1, v)
    \/ PopBack(1)
    \/ Clear(1)
    \/ \E p \in 0 .. (N + 1), v \in Values : Emplace(1, p, v)
    \/ \E p \in 0 .. N : Erase(1, p)
    \/ \E f \in 0 .. (N + 1), l \in 0 .. (N + 1) : EraseRange(1, f, l)
    \/ \E p \in 0 .. (N + 1), n \in 0 .. MaxIns, v \in Values : InsertCount(1, p, n, v)
    \/ \E p \in 0 .. (N + 1), xs \in SeqsOf(MaxIns) : InsertRange(1, p, xs)
    \/ \E p \in 0 .. (N + 1), xs \in SeqsOf(MaxIns) : InsertIlist(1, p, xs)
    \/ \E n \in 0 .. (N + 1), v \in Values : Resize(1, n, v)
    \/ \E i \in 0 .. N : At(1, i)
    \/ Front(1)
    \/ Back(1)
    \/ CopyAssign(1, 1)
    \/ MoveAssign(1, 1)
    \/ CtorDefault(1)
    \/ \E n \in 0 .. (N + 1), v \in Values : CtorCount(1, n, v)
    \/ \E xs \in SeqsOf(N + 1) : CtorIlist(1, xs)
    \/ \E xs \in SeqsOf(N + 1) : CtorRange(1, xs)
    \/ Dtor(1)

Spec == Init /\ [][Next]_vars

\* Two containers: copies and moves between them, and the mutators called
\* within their preconditions on either
NextPair ==
    \/ \E c \in Ids, v \in Values : vec[c].m_size < N /\ PushBack(c, v)
    \/ \E c \in Ids : vec[c].m_size > 0 /\ PopBack(c)
    \/ \E c \in Ids : Clear(c)
    \/ \E c \in Ids, p \in 0 .. N, v \in Values :
          vec[c].m_size < N /\ p <= vec[c].m_size /\ Emplace(c, p, v)
    \/ \E c \in Ids, p \in 0 .. N : p < vec[c].m_size /\ Erase(c, p)
    \/ \E c \in Ids, src \in Ids : CopyAssign(c, src)
    \/ \E c \in Ids, src \in Ids : MoveAssign(c, src)
    \/ \E c \in Ids : CtorDefault(c)
    \/ \E c \in Ids, src \in Ids : CopyCtor(c, src)
    \/ \E c \in Ids, src \in Ids : MoveCtor(c, src)
    \/ \E c \in Ids : Dtor(c)

SpecPair == Init /\ [][NextPair]_vars

\* Two containers and their comparison
NextEq ==
    \/ \E c \in Ids, v \in Values : vec[c].m_size < N /\ PushBack(c, v)
    \/ \E c \in Ids : vec[c].m_size > 0 /\ PopBack(c)
    \/ \E c \in Ids, p \in 0 .. N : p < vec[c].m_size /\ Erase(c, p)
    \/ \E c \in Ids, src \in Ids : CopyAssign(c, src)
    \/ \E c \in Ids, src \in Ids : Equals(c, src)
    \/ \E c \in Ids, src \in Ids : NotEquals(c, src)
    \/ \E c \in Ids : CtorDefault(c)

SpecEq == Init /\ [][NextEq]_vars

\* Two containers: the mutators called within their preconditions on the
\* first, and copies and moves between the two
NextLife ==
    \/ \E v \in Values : vec[1].m_size < N /\ PushBack(1, v)
    \/ vec[1].m_size > 0 /\ PopBack(1)
    \/ Clear(1)
    \/ \E p \in 0 .. N, v \in Values :
          vec[1].m_size < N /\ p <= vec[1].m_size /\ Emplace(1, p, v)
    \/ \E p \in 0 .. N : p < vec[1].m_size /\ Erase(1, p)
    \/ \E f \in 0 .. N, l \in 0 .. N : f <= l /\ l <= vec[1].m_size /\ EraseRange(1, f, l)
    \/ \E n \in 0 .. N, v \in Values : Resize(1, n, v)
    \/ \E c \in Ids, src \in Ids : CopyAssign(c, src)
    \/ \E c \in Ids, src \in Ids : MoveAssign(c, src)
    \/ \E c \in Ids : CtorDefault(c)
    \/ \E c \in Ids, src \in Ids : CopyCtor(c, src)
    \/ \E c \in Ids, src \in Ids : MoveCtor(c, src)
    \/ \E c \in Ids : Dtor(c)

SpecLife == Init /\ [][NextLife]_vars

\* One container and an iterator over it
NextIter ==
    \/ \E v \in Values : vec[1].m_size < N /\ PushBack(1, v)
    \/ vec[1].m_size > 0 /\ PopBack(1)
    \/ ItBegin
    \/ ItEnd
    \/ ItDeref
    \/ ItPreInc
    \/ ItPreDec
    \/ ItPostInc
    \/ ItPostDec
    \/ \E d \in Deltas : ItPlusEq(d)
    \/ \E d \in Deltas : ItMinusEq(d)
    \/ \E d \in Deltas : ItPlus(d)
    \/ \E d \in Deltas : ItMinus(d)
    \/ \E j \in 0 .. N : ItCompare(j)

SpecIter == Init /\ [][NextIter]_vars

TypeOK ==
    /\ is_trivial \in BOOLEAN
    /\ \A c \in Ids : vec[c].m_size \in SizeT

(***************************************************************************)
(* Properties                                                              *)
(***************************************************************************)
\* the latest call was op, within its precondition, and returned
Done(op) == last.op = op /\ last.pre /\ ~last.failed
Old(c) == Elems(last.old[c])
Now(c) == Elems(vec[c])
\* old[a, b) of container c, by 0-based indices
OldPart(c, a, b) == SubSeq(Old(c), a + 1, b)
OldSize(c) == last.old[c].m_size

\* operator==(lhs, rhs)
equal(lhs, rhs) ==
    /\ lhs.m_size = rhs.m_size
    /\ \A i \in 0 .. (lhs.m_size - 1) : lhs.m_storage[i] = rhs.m_storage[i]

\* C1: after any sequence of public operations called within their
\* preconditions, every container has 0 <= size() <= capacity() and
\* capacity() is N.
C1_SizeWithinCapacity ==
    last.pre => \A c \in Ids :
        alive[c] => (0 <= vec[c].m_size /\ vec[c].m_size <= capacity /\ capacity = N)

C1_Witness ==
    /\ Done("insert_range") /\ Len(last.xs) = 2
    /\ vec[1].m_size = N

\* C2: for a non-trivial T, after every public operation called within its
\* precondition, a slot holds an object exactly when its index is below size.
C2_LiveExactlyBelowSize ==
    (~is_trivial /\ last.pre) => \A c \in Ids : \A i \in Slots :
        (vec[c].m_storage[i] # Empty) <=> (alive[c] /\ i < vec[c].m_size)

C2_Witness ==
    /\ ~is_trivial /\ Done("move_assign") /\ last.src # last.c
    /\ OldSize(last.src) = N /\ OldSize(last.c) > 0

\* C3: insert(pos, count, value), insert(pos, first, last) and
\* insert(pos, initializer_list) within capacity yield
\* old[0, p) ++ inserted ++ old[p, size), the inserted elements in input order.
C3_InsertKeepsInputOrder ==
    (Done("insert_count") \/ Done("insert_range") \/ Done("insert_ilist")) =>
        Now(last.c) = OldPart(last.c, 0, last.p) \o last.xs
                        \o OldPart(last.c, last.p, OldSize(last.c))

\* C4: insert(pos, v) / emplace(pos, args) with size < N and pos at index
\* p <= size yields old[0, p) ++ [v] ++ old[p, size), size grows by 1, the
\* returned iterator has index p, and at pos = end the effect is push_back's.
C4_EmplaceInsertsAtPos ==
    Done("emplace") =>
        /\ Now(last.c) = OldPart(last.c, 0, last.p) \o <<last.v>>
                           \o OldPart(last.c, last.p, OldSize(last.c))
        /\ vec[last.c].m_size = OldSize(last.c) + 1
        /\ last.ret = last.p
        /\ last.p = OldSize(last.c) =>
              vec = push_back([Start EXCEPT !.vec = last.old], last.c, last.v).vec

C4_Witness ==
    /\ Done("emplace") /\ last.p = 1 /\ OldSize(last.c) = 2
    /\ last.old[last.c].m_storage[0] # last.old[last.c].m_storage[1]

\* C5: erase(pos) with pos at index p < size yields old[0, p) ++ old[p+1, size),
\* size shrinks by 1, the returned iterator has index p, which is end() when
\* the last element was erased.
C5_EraseRemovesAtPos ==
    Done("erase") =>
        /\ Now(last.c) = OldPart(last.c, 0, last.p)
                           \o OldPart(last.c, last.p + 1, OldSize(last.c))
        /\ vec[last.c].m_size = OldSize(last.c) - 1
        /\ last.ret = last.p
        /\ last.p = OldSize(last.c) - 1 => last.ret = end(last.c).m_index

C5_Witness ==
    /\ Done("erase") /\ last.p = 0 /\ OldSize(last.c) = N
    /\ last.old[last.c].m_storage[0] # last.old[last.c].m_storage[N - 1]

\* C6: erase(first, last) with indices f <= l <= size yields
\* old[0, f) ++ old[l, size), size shrinks by l - f, the returned iterator has
\* index f, and for f = l the container is unchanged.
C6_EraseRangeRemovesRange ==
    Done("erase_range") =>
        /\ Now(last.c) = OldPart(last.c, 0, last.p)
                           \o OldPart(last.c, last.q, OldSize(last.c))
        /\ vec[last.c].m_size = OldSize(last.c) - (last.q - last.p)
        /\ last.ret = last.p
        /\ last.p = last.q => vec = last.old

C6_Witness ==
    /\ Done("erase_range") /\ last.p = 0 /\ last.q = 1 /\ OldSize(last.c) = N
    /\ last.old[last.c].m_storage[0] # last.old[last.c].m_storage[N - 1]

\* C7: with assertions enabled, each of these calls reaches a failed
\* assertion: push_back / insert / emplace at size = N, at / operator[] /
\* front / back with index >= size, pop_back at size 0, erase on an empty
\* container, erase(pos) with pos at or beyond end(), insert / emplace with
\* pos beyond end().
C7_ViolationsAssert ==
    (/\ ~last.pre
     /\ last.op \in {"push_back", "emplace", "at", "front", "back", "pop_back", "erase"})
        => last.failed

\* C8: without a container mutation since the iterator was taken, operator*
\* with the index in [0, size) yields the element at the iterator's index,
\* whatever dereferences, increments, decrements, += and -= came before.
C8_DerefYieldsCurrentIndex ==
    (last.op = "deref" /\ last.pre /\ it.has /\ ~it.mut) =>
        last.val = vec[1].m_storage[it.m_index]

\* C9 as stated: after move construction and after move assignment from
\* every source s, the target holds what s held and s has size 0.
C9_MoveFromEverySource ==
    (Done("move_ctor") \/ Done("move_assign")) =>
        /\ Now(last.c) = Old(last.src)
        /\ vec[last.src].m_size = 0

\* C9: after move construction, and after move assignment from a source
\* other than the target, the target holds what the source held, in order,
\* and the source has size 0; move assignment of a container to itself
\* leaves it as it was.
C9_MoveTransfers ==
    (Done("move_ctor") \/ Done("move_assign")) =>
        IF last.src # last.c
        THEN /\ Now(last.c) = Old(last.src)
             /\ vec[last.src].m_size = 0
        ELSE vec = last.old

C9_Witness ==
    /\ Done("move_assign") /\ last.src # last.c
    /\ OldSize(last.src) = 2 /\ OldSize(last.c) = N
    /\ last.old[last.src].m_storage[0] # last.old[last.src].m_storage[1]

\* C10: after copy construction or copy assignment the copy compares equal
\* to the source and the source is as it was; and no operation on one
\* container changes the other, except a move, which empties its source.
C10_CopyIndependent ==
    last.pre =>
        /\ (last.op \in {"copy_ctor", "copy_assign"} /\ ~last.failed) =>
              /\ equal(vec[last.c], vec[last.src])
              /\ equal(vec[last.src], vec[last.c])
              /\ vec[last.src] = last.old[last.src]
        /\ last.op \notin {"move_ctor", "move_assign"} =>
              \A o \in Ids : o # last.c => vec[o] = last.old[o]

C10_Witness ==
    /\ Done("copy_assign") /\ last.src # last.c
    /\ OldSize(last.src) = 2 /\ OldSize(last.c) = N
    /\ last.old[last.src].m_storage[0] # last.old[last.src].m_storage[1]

\* C11: push_back / emplace_back / insert(pos, v) / emplace(pos, args) on a
\* full container fails its assertion before any slot or the size is
\* modified: at the violation the container is as it was before the call.
C11_FullRejectedUnchanged ==
    (last.op \in {"push_back", "emplace"} /\ OldSize(last.c) = N) =>
        /\ last.failed
        /\ vec = last.old
        /\ last.log = <<>>

C11_Witness ==
    /\ last.op = "emplace" /\ OldSize(last.c) = N /\ last.p = 0 /\ last.failed
    /\ last.old[last.c].m_storage[0] # Default

\* C12: push_back(v) / emplace_back(args) with size < N constructs the new
\* element at slot size (and nothing else), increases size by 1, makes
\* back() equal v and leaves every element below the old size unchanged.
C12_PushBackAppends ==
    Done("push_back") =>
        /\ last.log = <<Event("construct", last.c, OldSize(last.c))>>
        /\ vec[last.c].m_storage[OldSize(last.c)] = last.v
        /\ vec[last.c].m_size = OldSize(last.c) + 1
        /\ Get(at(Start, last.c, cast(vec[last.c].m_size - 1)), last.c,
               cast(vec[last.c].m_size - 1)) = last.v
        /\ \A i \in Slots : i < OldSize(last.c) =>
              vec[last.c].m_storage[i] = last.old[last.c].m_storage[i]

C12_Witness ==
    /\ Done("push_back") /\ OldSize(last.c) = N - 1
    /\ last.v # last.old[last.c].m_storage[N - 2] /\ last.v # Default

\* C13: from a state with size < N, push_back(v) then pop_back(), and
\* insert(pos, v) then erase at the returned position, for every pos in
\* [begin, end], are both within their preconditions and leave the size and
\* the element sequence as they were before the pair.
C13_RoundTripRestores ==
    last.undoes =>
        /\ last.pre /\ ~last.failed
        /\ vec[last.c].m_size = last.base[last.c].m_size
        /\ Now(last.c) = Elems(last.base[last.c])

C13_Witness ==
    /\ last.undoes /\ Done("erase") /\ last.p = 1 /\ OldSize(last.c) = N
    /\ last.old[last.c].m_storage[1] # last.old[last.c].m_storage[2]
    /\ last.old[last.c].m_storage[1] # last.old[last.c].m_storage[0]

\* n copies of v
Repeat(n, v) == [i \in 1 .. n |-> v]

\* C14: clear() yields size() = 0 and empty(); for a non-trivial T it
\* destroys every slot that was live exactly once, in descending order from
\* size - 1 to 0, each destruction on a live slot, and nothing else.
C14_ClearDestroysDescending ==
    Done("clear") =>
        /\ vec[last.c].m_size = 0
        /\ empty(Start, last.c)
        /\ ~is_trivial =>
              /\ ~last.ub
              /\ Len(last.log) = OldSize(last.c)
              /\ \A k \in 1 .. Len(last.log) :
                    last.log[k] = Event("destroy", last.c, OldSize(last.c) - k)
              /\ vec[last.c].m_storage = EmptyStorage

C14_Witness ==
    ~is_trivial /\ Done("clear") /\ OldSize(last.c) = N /\ Len(last.log) = N

\* C15: resize(count, fill) with count <= N leaves size = count: below the
\* old size the first count elements stay and the rest are destroyed, above
\* it the old elements stay and the new trailing ones equal fill, at the old
\* size nothing changes.
C15_ResizeToCount ==
    Done("resize") =>
        /\ vec[last.c].m_size = last.q
        /\ last.q < OldSize(last.c) =>
              /\ Now(last.c) = OldPart(last.c, 0, last.q)
              /\ ~is_trivial =>
                    /\ \A i \in Slots : i >= last.q => vec[last.c].m_storage[i] = Empty
                    /\ \A k \in 1 .. Len(last.log) : last.log[k].k = "destroy"
                    /\ Len(last.log) = OldSize(last.c) - last.q
        /\ last.q > OldSize(last.c) =>
              Now(last.c) = Old(last.c) \o Repeat(last.q - OldSize(last.c), last.v)
        /\ last.q = OldSize(last.c) => (vec = last.old /\ last.log = <<>>)

C15_Witness ==
    /\ Done("resize") /\ OldSize(last.c) = 1 /\ last.q = N
    /\ last.v # Default /\ last.old[last.c].m_storage[0] # last.v

\* sizes equal and the elements at every index in [0, size) equal
SameElems(a, b) ==
    /\ a.m_size = b.m_size
    /\ \A i \in Slots : i < a.m_size => a.m_storage[i] = b.m_storage[i]

\* C16: operator== on two containers is true iff their sizes are equal and
\* the elements at every index below size are equal; it is reflexive and
\* symmetric; operator!= is its negation.
C16_EqualityBySizeAndElements ==
    (last.op \in {"eq", "ne"}) =>
        /\ ~last.failed /\ ~last.ub /\ vec = last.old
        /\ last.op = "eq" =>
              /\ last.val = Flag(SameElems(vec[last.c], vec[last.src]))
              /\ last.c = last.src => last.val = 1
              /\ last.val = Flag(operator_eq(Start, last.src, last.c).res)
        /\ last.op = "ne" =>
              /\ last.val = Flag(~SameElems(vec[last.c], vec[last.src]))
              /\ last.val = Flag(~operator_eq(Start, last.c, last.src).res)

C16_Witness ==
    /\ last.op = "eq" /\ last.c # last.src /\ last.val = 0
    /\ vec[1].m_size = 2 /\ vec[2].m_size = 2
    /\ vec[1].m_storage[0] = vec[2].m_storage[1]
    /\ vec[1].m_storage[1] = vec[2].m_storage[0]

\* the slots of a container that hold an object
LiveSlots(v) == {i \in Slots : v.m_storage[i] # Empty}

\* the constructions and destructions log[k..], run from the live slots
\* `live`: each construction is onto an empty slot, each destruction is of a
\* live slot, and they end in the live slots of the containers as they are
RECURSIVE LogSafe(_, _, _)
LogSafe(log, k, live) ==
    IF k > Len(log) THEN \A c \in Ids : live[c] = LiveSlots(vec[c])
    ELSE LET e == log[k]
         IN  IF e.k = "construct"
             THEN /\ e.i \in Slots /\ e.i \notin live[e.c]
                  /\ LogSafe(log, k + 1, [live EXCEPT ![e.c] = @ \cup {e.i}])
             ELSE /\ e.i \in live[e.c]
                  /\ LogSafe(log, k + 1, [live EXCEPT ![e.c] = @ \ {e.i}])

\* C17: at every step inside every public operation called within its
\* precondition, an element is constructed only onto an empty slot,
\* destroyed only on a live slot (so never twice), and read, swapped or
\* assigned only on a live slot.
C17_StepsRespectLifetimes ==
    last.pre =>
        /\ ~last.ub
        /\ ~is_trivial => LogSafe(last.log, 1, [c \in Ids |-> LiveSlots(last.old[c])])

C17_Witness ==
    /\ ~is_trivial /\ Done("move_assign") /\ last.c = 1 /\ last.src = 2
    /\ OldSize(1) = 2 /\ OldSize(2) = N
    /\ Len(last.log) = 2 + N + N

\* C18: every element access, through the container and through an iterator
\* dereference, derives its typed pointer from the storage at the time of
\* the access: none reuses a pointer obtained before a container operation
\* that constructed or destroyed an element.
C18_AccessRederivesPointer ==
    (last.op \in {"deref", "at", "front", "back"}) => ~last.stale

\* an index that difference_type holds, as every index into a container is
InDiffT(i) == i \in DiffT

\* C19: for an iterator at index i and a signed d, negative included, with
\* 0 <= i + d, it + d and it += d give index i + d, and it - d and it -= d
\* give i - d when that is >= 0; a - b is index(a) - index(b); the six
\* comparisons of two iterators of one container are those of their indices.
C19_IteratorArithmeticExact ==
    /\ (last.op \in {"plus", "plus_eq"} /\ InDiffT(last.p) /\ 0 <= last.p + last.q) =>
           it.m_index = last.p + last.q
    /\ (last.op \in {"minus", "minus_eq"} /\ InDiffT(last.p) /\ 0 <= last.p - last.q) =>
           it.m_index = last.p - last.q
    /\ last.op = "compare" =>
           /\ (InDiffT(last.p) /\ InDiffT(last.q)) => last.val = last.p - last.q
           /\ last.xs = <<Flag(last.p = last.q), Flag(last.p # last.q),
                          Flag(last.p < last.q), Flag(last.p <= last.q),
                          Flag(last.p > last.q), Flag(last.p >= last.q)>>

C19_Witness ==
    /\ last.op = "minus" /\ last.q = 0 - 2 /\ last.p = 1 /\ it.m_index = 3

\* xs back to front
Reversed(xs) == [i \in 1 .. Len(xs) |-> xs[Len(xs) + 1 - i]]

\* the latest call was an insert of more elements than there is room for,
\* at a position of the container
InsertOverflows ==
    /\ last.op \in {"insert_count", "insert_range", "insert_ilist"}
    /\ last.p <= OldSize(last.c)
    /\ OldSize(last.c) + Len(last.xs) > N

\* C20: an insert of a count or of a range, a resize and a construction from
\* a range whose resulting size would exceed N are not rejected up front:
\* single elements are inserted until size = N, then the has_space assertion
\* fails, with the container at size N holding the elements inserted so far;
\* the (count, fill) and initializer-list constructors check the total
\* before they insert anything.
C20_OverflowFailsAtCapacity ==
    LET c == last.c
        room == N - OldSize(c)
    IN  /\ (InsertOverflows \/ (last.op = "resize" /\ last.q > N)
               \/ (last.op = "ctor_range" /\ Len(last.xs) > N)) =>
               /\ last.failed /\ ~last.ub
               /\ vec[c].m_size = N
               /\ Len(last.log) = room
               /\ \A k \in 1 .. Len(last.log) : last.log[k].k = "construct"
        /\ InsertOverflows =>
               Now(c) = OldPart(c, 0, last.p) \o Reversed(SubSeq(last.xs, 1, room))
                          \o OldPart(c, last.p, OldSize(c))
        /\ (last.op = "resize" /\ last.q > N) => Now(c) = Old(c) \o Repeat(room, last.v)
        /\ (last.op = "ctor_range" /\ Len(last.xs) > N) => Now(c) = SubSeq(last.xs, 1, N)
        /\ ((last.op = "ctor_count" /\ last.q > N) \/ (last.op = "ctor_ilist" /\ Len(last.xs) > N)) =>
               /\ last.failed
               /\ vec[c] = NewVec /\ last.log = <<>>

C20_Witness ==
    /\ last.op = "insert_range" /\ InsertOverflows /\ last.failed
    /\ OldSize(last.c) = N - 1 /\ Len(last.xs) = 2 /\ last.p = 0
    /\ vec[last.c].m_size = N
    /\ last.xs[1] # last.old[last.c].m_storage[0]

====
